---- MODULE Spec2Model ----
(***************************************************************************)
(* ScholarFinder API (scholarfinder_api.py): the job store under           *)
(* API_uploads/<job_id>/ and the endpoints that read and write it.         *)
(*                                                                         *)
(* Texts are sequences of one-character strings, so that name cleaning and *)
(* the CSV round trip are computed and not assumed.  Every endpoint is one *)
(* action: the whole handler, from its first check to its response (or to  *)
(* the exception that ends it, which the framework turns into status 500). *)
(***************************************************************************)
EXTENDS Integers, Sequences, FiniteSets, TLC

VARIABLES
    dirs,           \* job ids whose directory API_uploads/<job_id> exists
    meta,           \* <stem>_metadata.json: the set of its field names
    focus,          \* <stem>_focus_keywords.json and keywords.csv exist
    kwfile,         \* <stem>_keywordstring.json: inputs and keyword_string
    final_df,       \* final_df.csv: the aggregated source records
    final_df_1,     \* final_df_1.csv: projection of final_df
    pool,           \* author_email_df_before_val.csv: rows of text fields
    after_val,      \* author_email_df_after_val.csv
    final_authors,  \* Final_authors.csv
    display,        \* Final_authors_display.csv
    resp,           \* the last call: [op, job, status]
    calls,          \* collaborators the last call invoked, by first invocation
    coQueries,      \* check_coauthorship_selenium queries of the last call
    searched,       \* history: jobs for which database_search returned 200
    manualAdded,    \* history: jobs for which manual_authors returned 200
    enriched,       \* history: jobs for which validate_authors began enrichment
    inflight        \* the handler executions in progress, by worker thread

vars == <<dirs, meta, focus, kwfile, final_df, final_df_1, pool, after_val,
          final_authors, display, resp, calls, coQueries, searched,
          manualAdded, enriched, inflight>>

store == <<dirs, meta, focus, kwfile, final_df, final_df_1, pool, after_val,
           final_authors, display>>

history == <<searched, manualAdded, enriched>>

----------------------------------------------------------------------------
(* Bounds of the model *)

\* SpecValidate starts from the candidate tables that a search returning
\* at most this many articles leaves
MaxPool == 2

JobIds == {"j1", "j2"}

\* the threads of the pool that runs the handlers declared with "def"
Workers == {"w1", "w2"}

\* a worker that runs no handler
Idle == [op |-> "idle", job |-> "none", pc |-> "idle", read |-> {}]

\* A file is the set holding its content; the file that does not exist is
\* the empty set
NoFile == {}
File(content) == {content}
Content(file) == CHOOSE c \in file : TRUE

NaN == <<"<NaN>">>
None == <<"<None>">>

----------------------------------------------------------------------------
(* Texts *)

Letters ==
    {"A","B","C","D","E","F","G","H","I","J","K","L","M","N","O","P","Q","R",
     "S","T","U","V","W","X","Y","Z","a","b","c","d","e","f","g","h","i","j",
     "k","l","m","n","o","p","q","r","s","t","u","v","w","x","y","z"}

Digits == {"0","1","2","3","4","5","6","7","8","9"}

\* \w of the regular expressions
WordChars == Letters \cup Digits \cup {"_"}

\* \s of the regular expressions, and what str.strip() removes
Whitespace == {" ", "\t", "\n"}

DEGREE_WORDS ==
    { <<"M","D">>, <<"P","h","D">>, <<"B","D">>, <<"M","S">>,
      <<"M","S","c">>, <<"B","S","c">>, <<"D","D","S">>, <<"D","O">>,
      <<"D","V","M">>, <<"D","r","P","H">>, <<"M","P","H">>,
      <<"M","B","A">>, <<"E","d","D">>, <<"D","P","h","i","l">>,
      <<"S","c","D">>, <<"D","S","c">>, <<"F","R","C","P">>,
      <<"F","R","C","S">>, <<"D","P","M">> }

RECURSIVE WordRunLen(_)
\* length of the run of word characters s starts with
WordRunLen(s) ==
    IF s = <<>> \/ s[1] \notin WordChars THEN 0
    ELSE 1 + WordRunLen(Tail(s))

RECURSIVE RemoveDegreeWords(_)
\* .str.replace(r"\b(MD|PhD|...)\b", ""): a match is a whole run of word
\* characters, so every such run that is a degree word is removed
RemoveDegreeWords(s) ==
    IF s = <<>> THEN <<>>
    ELSE IF s[1] \notin WordChars
         THEN <<s[1]>> \o RemoveDegreeWords(Tail(s))
         ELSE LET n == WordRunLen(s)
                  w == SubSeq(s, 1, n)
                  rest == SubSeq(s, n + 1, Len(s))
              IN (IF w \in DEGREE_WORDS THEN <<>> ELSE w)
                 \o RemoveDegreeWords(rest)

KeepCommas(s) == s

\* .str.replace(r",", "")
RemoveCommas(s) == SelectSeq(s, LAMBDA c : c # ",")

RECURSIVE CollapseWhitespace(_)
\* .str.replace(r"\s+", " ")
CollapseWhitespace(s) ==
    IF s = <<>> THEN <<>>
    ELSE IF s[1] \in Whitespace
         THEN IF Len(s) > 1 /\ s[2] \in Whitespace
              THEN CollapseWhitespace(Tail(s))
              ELSE <<" ">> \o CollapseWhitespace(Tail(s))
         ELSE <<s[1]>> \o CollapseWhitespace(Tail(s))

RECURSIVE LStrip(_)
LStrip(s) ==
    IF s # <<>> /\ s[1] \in Whitespace THEN LStrip(Tail(s)) ELSE s

RECURSIVE RStrip(_)
RStrip(s) ==
    IF s # <<>> /\ s[Len(s)] \in Whitespace
    THEN RStrip(SubSeq(s, 1, Len(s) - 1)) ELSE s

\* str.strip()
Strip(s) == LStrip(RStrip(s))

\* the cleaning of the author column in database_search
CleanName(s) ==
    Strip(CollapseWhitespace(RemoveCommas(RemoveDegreeWords(s))))

RECURSIVE Join(_, _)
\* sep.join(parts)
Join(parts, sep) ==
    IF parts = <<>> THEN <<>>
    ELSE IF Len(parts) = 1 THEN parts[1]
    ELSE parts[1] \o sep \o Join(Tail(parts), sep)

RECURSIVE Split(_, _)
\* s.split(c) for a one-character separator c
Split(s, c) ==
    IF \A i \in 1..Len(s) : s[i] # c THEN <<s>>
    ELSE LET k == CHOOSE i \in 1..Len(s) :
                     s[i] = c /\ \A h \in 1..(i - 1) : s[h] # c
         IN <<SubSeq(s, 1, k - 1)>> \o Split(SubSeq(s, k + 1, Len(s)), c)

RECURSIVE MapSeq(_, _)
MapSeq(F(_), s) ==
    IF s = <<>> THEN <<>> ELSE <<F(s[1])>> \o MapSeq(F, Tail(s))

RECURSIVE Flatten(_)
\* concatenation of a sequence of sequences
Flatten(ss) == IF ss = <<>> THEN <<>> ELSE ss[1] \o Flatten(Tail(ss))

Range(s) == {s[i] : i \in 1..Len(s)}

----------------------------------------------------------------------------
(* Python dicts: insertion-ordered sequences of <<key, value>> pairs *)

Keys(d) == MapSeq(LAMBDA kv : kv[1], d)

Values(d) == MapSeq(LAMBDA kv : kv[2], d)

\* d.get(k, default)
Get(d, k, default) ==
    IF \E i \in 1..Len(d) : d[i][1] = k
    THEN d[CHOOSE i \in 1..Len(d) : d[i][1] = k][2]
    ELSE default

----------------------------------------------------------------------------
(* pandas CSV round trip of one text cell *)

\* the strings pandas.read_csv reads as a missing value (default na_values)
NaValues ==
    { <<>>, <<"N","A">>, <<"N","a","N">>, <<"n","a","n">>,
      <<"n","u","l","l">>, <<"N","U","L","L">>, <<"N","o","n","e">>,
      <<"N","/","A">>, <<"n","/","a">> }

\* str(x) of a set of texts: "{'x', 'y'}"
StrOfSet(members) ==
    <<"{">> \o Join(MapSeq(LAMBDA m : <<"'">> \o m \o <<"'">>, members),
                    <<",", " ">>) \o <<"}">>

\* a parser result that is a set of candidates: its members in iteration
\* order, kept apart by the marker "<,>" (no character of a text)
SetValue(members) == <<"<set>">> \o Join(members, <<"<,>">>)

IsSetValue(v) == Len(v) > 0 /\ v[1] = "<set>"

MembersOf(v) == IF Len(v) = 1 THEN <<>> ELSE Split(Tail(v), "<,>")

\* DataFrame.to_csv: a missing value is written as the empty field, any
\* other object as str(object)
ToCsvCell(v) ==
    IF v = NaN \/ v = None THEN <<>>
    ELSE IF IsSetValue(v) THEN StrOfSet(MembersOf(v))
    ELSE v

\* pandas.read_csv: an empty field (or another NA string) is read as NaN
ReadCsvCell(t) == IF t \in NaValues THEN NaN ELSE t

PoolColumns == {"author", "email", "aff", "city", "country"}

ToCsv(rows) == MapSeq(LAMBDA r : [c \in DOMAIN r |-> ToCsvCell(r[c])], rows)

ReadCsv(rows) == MapSeq(LAMBDA r : [c \in DOMAIN r |-> ReadCsvCell(r[c])], rows)

IsNull(v) == v = NaN \/ v = None

\* DataFrame.dropna(): drops every row holding a missing value
DropNa(rows) == SelectSeq(rows, LAMBDA r : \A c \in DOMAIN r : ~IsNull(r[c]))


----------------------------------------------------------------------------
(* Responses and the job store *)

OK == 200
NotFound == 404
ServerError == 500

Resp(op, j, status, body) ==
    [op |-> op, job |-> j, status |-> status, body |-> body]

\* fields upload_extract_metadata writes into <stem>_metadata.json
BaseFields ==
    {"job_id", "file_name", "timestamp", "heading", "authors",
     "affiliations", "keywords", "abstract", "author_aff_map"}

\* fields keyword_enhancement adds to the metadata
FocusFields ==
    {"mesh_terms", "broader_terms", "primary_focus", "secondary_focus",
     "additional_primary_keywords", "additional_secondary_keywords",
     "all_primary_focus_list", "all_secondary_focus_list"}

\* fields keyword_string_generator adds to the metadata
KeywordFields ==
    {"timestamp", "input_primary_keywords", "input_secondary_keywords",
     "keyword_string"}

Init ==
    /\ dirs = {}
    /\ meta = [j \in JobIds |-> NoFile]
    /\ focus = [j \in JobIds |-> FALSE]
    /\ kwfile = [j \in JobIds |-> NoFile]
    /\ final_df = [j \in JobIds |-> NoFile]
    /\ final_df_1 = [j \in JobIds |-> NoFile]
    /\ pool = [j \in JobIds |-> NoFile]
    /\ after_val = [j \in JobIds |-> NoFile]
    /\ final_authors = [j \in JobIds |-> NoFile]
    /\ display = [j \in JobIds |-> NoFile]
    /\ resp = Resp("none", "none", OK, "")
    /\ calls = <<>>
    /\ coQueries = <<>>
    /\ searched = {}
    /\ manualAdded = {}
    /\ enriched = {}
    /\ inflight = [w \in Workers |-> Idle]

\* a call that ends without writing anything
Reply(op, j, status, body, called) ==
    /\ resp' = Resp(op, j, status, body)
    /\ calls' = called
    /\ coQueries' = <<>>
    /\ UNCHANGED <<store, history, inflight>>

InvalidJobCreated(op, j) ==
    /\ j \notin dirs
    /\ dirs' = dirs \cup {j}
    /\ resp' = Resp(op, j, NotFound, "invalid job_id")
    /\ calls' = <<>>
    /\ coQueries' = <<>>
    /\ UNCHANGED <<meta, focus, kwfile, final_df, final_df_1, pool, after_val,
                   final_authors, display, history, inflight>>

\* "if not job_dir.exists(): return 404", the first check of every
\* job-scoped endpoint
InvalidJob(op, j) ==
    /\ j \notin dirs
    /\ Reply(op, j, NotFound, "invalid job_id", <<>>)

\* list(job_dir.glob("*_metadata.json")) is not empty
HasMetadata(j) == meta[j] # NoFile

HasKeywordStringAlways(j) == TRUE

\* list(job_dir.glob("*_keywordstring.json")) is not empty
HasKeywordString(j) == kwfile[j] # NoFile

HasCandidateTableAlways(j) == TRUE

\* author_email_df_path.exists()
HasCandidateTable(j) == pool[j] # NoFile

\* final_authors_path.exists()
HasReviewerTable(j) == final_authors[j] # NoFile

\* the rows of author_email_df_before_val.csv as written
PoolRows(j) == IF pool[j] = NoFile THEN <<>> ELSE Content(pool[j])

----------------------------------------------------------------------------
(* 1. upload_extract_metadata *)

\* j is the generated job id; extracted: the conversion and extraction
\* collaborators returned, otherwise one of them raised after the job
\* directory was made and before the metadata was written
upload_extract_metadata(j, extracted) ==
    /\ dirs' = dirs \cup {j}
    /\ meta' = IF extracted THEN [meta EXCEPT ![j] = File(BaseFields)] ELSE meta
    /\ resp' = Resp("upload_extract_metadata", j,
                    IF extracted THEN OK ELSE ServerError, "")
    /\ calls' = <<"claude_extract_manuscript_metadata">>
    /\ coQueries' = <<>>
    /\ UNCHANGED <<focus, kwfile, final_df, final_df_1, pool, after_val,
                   final_authors, display, history, inflight>>

----------------------------------------------------------------------------
(* 2. metadata_extraction *)

\* glob("*_keywords.json") matches <stem>_focus_keywords.json, the only
\* file of a job whose name ends so
metadata_extraction(j) ==
    \/ InvalidJob("metadata_extraction", j)
    \/ /\ j \in dirs
       /\ IF focus[j]
          THEN Reply("metadata_extraction", j, OK, "focus_keywords", <<>>)
          ELSE IF HasMetadata(j)
          THEN Reply("metadata_extraction", j, OK, "metadata", <<>>)
          ELSE Reply("metadata_extraction", j, NotFound, "no metadata", <<>>)

----------------------------------------------------------------------------
(* 3. keyword_enhancement *)

\* parsed: get_mesh_terms, primary_sec and additional_keywords returned and
\* their answers held the JSON objects and keys the handler reads;
\* otherwise the handler raises before its first write (line 345)
keyword_enhancement(j, parsed) ==
    \/ InvalidJob("keyword_enhancement", j)
    \/ /\ j \in dirs
       /\ ~HasMetadata(j)
       /\ Reply("keyword_enhancement", j, NotFound, "no base metadata", <<>>)
    \/ /\ j \in dirs
       /\ HasMetadata(j)
       /\ LET called == <<"get_mesh_terms", "primary_sec",
                          "additional_keywords">>
          IN IF parsed
             THEN /\ meta' = [meta EXCEPT ![j] = File(Content(meta[j]) \cup FocusFields)]
                  /\ focus' = [focus EXCEPT ![j] = TRUE]
                  /\ resp' = Resp("keyword_enhancement", j, OK, "")
                  /\ calls' = called
                  /\ coQueries' = <<>>
                  /\ UNCHANGED <<dirs, kwfile, final_df, final_df_1, pool,
                                 after_val, final_authors, display, history,
                                 inflight>>
             ELSE Reply("keyword_enhancement", j, ServerError, "", called)

----------------------------------------------------------------------------
(* 4. keyword_string_generator *)

\* [kw.strip() for kw in input.split(',') if kw.strip()]
SplitKeywords(input) ==
    SelectSeq(MapSeq(Strip, Split(input, ",")), LAMBDA kw : kw # <<>>)

build_string_bare(keywords) ==
    LET kws == SelectSeq(keywords, LAMBDA kw : kw # <<>>)
    IN IF kws = <<>> THEN <<>>
       ELSE IF Len(kws) = 1 THEN kws[1]
       ELSE <<"(">> \o Join(kws, <<" ", "O", "R", " ">>) \o <<")">>

\* lines 443-449
build_string(keywords) ==
    LET kws == SelectSeq(keywords, LAMBDA kw : kw # <<>>)
    IN IF kws = <<>> THEN <<>>
       ELSE IF Len(kws) = 1 THEN <<"(">> \o kws[1] \o <<")">>
       ELSE <<"(">> \o Join(kws, <<" ", "O", "R", " ">>) \o <<")">>

KeywordString(primary_keywords_input, secondary_keywords_input) ==
    LET primary_str == build_string(SplitKeywords(primary_keywords_input))
        secondary_str == build_string(SplitKeywords(secondary_keywords_input))
    IN IF primary_str # <<>> /\ secondary_str # <<>>
       THEN primary_str \o <<" ", "A", "N", "D", " ">> \o secondary_str
       ELSE IF primary_str # <<>> THEN primary_str ELSE secondary_str

\* keyword_string_json, without its timestamp (lines 462-467)
KeywordStringJson(primary_keywords_input, secondary_keywords_input) ==
    [input_primary_keywords |-> SplitKeywords(primary_keywords_input),
     input_secondary_keywords |-> SplitKeywords(secondary_keywords_input),
     keyword_string |-> KeywordString(primary_keywords_input,
                                      secondary_keywords_input)]

keyword_string_generator(j, primary_keywords_input, secondary_keywords_input) ==
    \/ InvalidJob("keyword_string_generator", j)
    \/ /\ j \in dirs
       /\ ~HasMetadata(j)
       /\ Reply("keyword_string_generator", j, NotFound, "no metadata", <<>>)
    \/ /\ j \in dirs
       /\ HasMetadata(j)
       /\ kwfile' = [kwfile EXCEPT ![j] =
                        File(KeywordStringJson(primary_keywords_input,
                                           secondary_keywords_input))]
       /\ meta' = [meta EXCEPT ![j] = File(Content(meta[j]) \cup KeywordFields)]
       /\ resp' = Resp("keyword_string_generator", j, OK, "")
       /\ calls' = <<>>
       /\ coQueries' = <<>>
       /\ UNCHANGED <<dirs, focus, final_df, final_df_1, pool, after_val,
                      final_authors, display, history, inflight>>


----------------------------------------------------------------------------
(* 5. database_search *)

\* the order in which database_search queries the sources it was given
SourceOrder == <<"ScienceDirect", "TandFonline", "WileyLibrary", "PubMed">>

Sources == Range(SourceOrder)

\* the search collaborator of each source
SearchCollaborator(source) ==
    CASE source = "ScienceDirect" -> "scrape_sciencedirect"
      [] source = "TandFonline" -> "search_tandfonline"
      [] source = "WileyLibrary" -> "fetch_article_details"
      [] source = "PubMed" -> "get_pubmed_data"

\* what a search collaborator can do: raise, return no table (None, or for
\* TandFonline something that is no list), or return rows (none, or more)
Raised == [kind |-> "raise", rows |-> <<>>]
NoTable == [kind |-> "none", rows |-> <<>>]
Rows(rows) == [kind |-> "rows", rows |-> rows]

\* one article as a source returns it; Authors stands for the column
\* "Authors(potential reviewers)"
Article(title, email_map, aff_map) ==
    [Title |-> title, Authors |-> Keys(email_map),
     Emails |-> Values(email_map), Author_Email_Map |-> email_map,
     Author_with_Affiliation |-> aff_map]

TaggedFirst(rows, source) ==
    MapSeq(LAMBDA r : [Title |-> r.Title, Authors |-> r.Authors,
                       Emails |-> r.Emails,
                       Author_Email_Map |-> r.Author_Email_Map,
                       Author_with_Affiliation |-> r.Author_with_Affiliation,
                       Website |-> SourceOrder[1]], rows)

\* df['Website'] = source
Tagged(rows, source) ==
    MapSeq(LAMBDA r : [Title |-> r.Title, Authors |-> r.Authors,
                       Emails |-> r.Emails,
                       Author_Email_Map |-> r.Author_Email_Map,
                       Author_with_Affiliation |-> r.Author_with_Affiliation,
                       Website |-> source], rows)

\* the position of the first selected source whose collaborator raises,
\* or 0
RECURSIVE FirstRaise(_, _, _)
FirstRaise(selected, outcome, k) ==
    IF k > Len(SourceOrder) THEN 0
    ELSE IF SourceOrder[k] \in selected /\ outcome[SourceOrder[k]].kind = "raise"
         THEN k
         ELSE FirstRaise(selected, outcome, k + 1)

\* the collaborators invoked, in order, up to position last
RECURSIVE SearchCalls(_, _, _)
SearchCalls(selected, k, last) ==
    IF k > last THEN <<>>
    ELSE (IF SourceOrder[k] \in selected
          THEN <<SearchCollaborator(SourceOrder[k])>> ELSE <<>>)
         \o SearchCalls(selected, k + 1, last)

\* all_data_df and pd.concat: a selected source whose table is missing or
\* empty adds nothing, every other one adds its rows, tagged
RECURSIVE Aggregate(_, _, _)
Aggregate(selected, outcome, k) ==
    IF k > Len(SourceOrder) THEN <<>>
    ELSE (IF SourceOrder[k] \in selected
             /\ outcome[SourceOrder[k]].kind = "rows"
          THEN Tagged(outcome[SourceOrder[k]].rows, SourceOrder[k])
          ELSE <<>>)
         \o Aggregate(selected, outcome, k + 1)

\* final_df[(Author_Email_Map != {}) & (Author_with_Affiliation != {})]
FilterValid(rows) ==
    SelectSeq(rows, LAMBDA r : r.Author_Email_Map # <<>>
                               /\ r.Author_with_Affiliation # <<>>)

\* a map that a source returns as text, such as "{}" or "{'Al': 'e3'}"
AsText(map) == <<"<str>", map>>

IsText(v) == Len(v) = 2 /\ v[1] = "<str>"

\* lines 619-622: if isinstance(m, str): m = eval(m)
EvalIfText(m) == IF IsText(m) THEN m[2] ELSE m

\* "for author in email_map: records.append(...)" of one row
RowRecords(r) ==
    LET email_map == EvalIfText(r.Author_Email_Map)
        aff_map == EvalIfText(r.Author_with_Affiliation)
    IN MapSeq(LAMBDA kv : [author |-> kv[1],
                           email |-> Get(email_map, kv[1], <<>>),
                           aff |-> Get(aff_map, kv[1], <<>>)],
              email_map)

ExtractRecords(rows) == Flatten(MapSeq(RowRecords, rows))

\* final_df[['Website', 'Authors(potential reviewers)', 'Emails', 'Title']]
Project1(rows) ==
    MapSeq(LAMBDA r : [Website |-> r.Website, Authors |-> r.Authors,
                       Emails |-> r.Emails, Title |-> r.Title], rows)


(* The texts the model's collaborators return *)

Jo == <<"J","o">>
JoMD == <<"J","o",","," ","M","D">>
Al == <<"A","l">>
MD == <<"M","D">>
e1 == <<"e","1">>
e2 == <<"e","2">>
e3 == <<"e","3">>
f1 == <<"f","1">>
f2 == <<"f","2">>
f3 == <<"f","3">>

\* extract_city(aff): a text, a set of candidates, or nothing
extract_city(aff) ==
    CASE aff = f1 -> <<"R">>
      [] aff = f2 -> SetValue(<< <<"O">>, <<"B">> >>)
      [] OTHER -> None

\* extract_country(aff): a text, a set of candidates, or nothing
extract_country(aff) ==
    CASE aff = f1 -> <<"I","T">>
      [] aff = f2 -> SetValue(<< <<"N","O">> >>)
      [] OTHER -> None

\* the author column cleaned, city and country derived (lines 633-647)
WithCityCountry(records) ==
    MapSeq(LAMBDA r : [author |-> CleanName(r.author), email |-> r.email,
                       aff |-> r.aff, city |-> extract_city(r.aff),
                       country |-> extract_country(r.aff)], records)

\* database_search from "records = []" to the frame it saves: pd.DataFrame,
\* dropna, city, country, name cleaning
CandidatePool(records) == WithCityCountry(DropNa(records))

\* selected: the names in selected_websites; outcome: what each source's
\* collaborator does when invoked; parsed: extract_city and extract_country
\* return (otherwise one of them raises)
database_search(j, selected, outcome, parsed) ==
    \/ InvalidJob("database_search", j)
    \/ /\ j \in dirs
       /\ ~HasKeywordString(j)
       /\ Reply("database_search", j, NotFound, "no keyword string", <<>>)
    \/ /\ j \in dirs
       /\ HasKeywordString(j)
       /\ LET raised == FirstRaise(selected, outcome, 1)
              searches == SearchCalls(selected, 1, Len(SourceOrder))
              valid == FilterValid(Aggregate(selected, outcome, 1))
              records == ExtractRecords(valid)
          IN IF raised # 0
             THEN \* no try/except around the collaborators
                  Reply("database_search", j, ServerError, "source raised",
                        SearchCalls(selected, 1, raised))
             ELSE IF records = <<>>
             THEN \* pd.DataFrame([]) has no column "aff": KeyError, line 633
                  Reply("database_search", j, ServerError, "KeyError aff",
                        searches)
             ELSE IF DropNa(records) # <<>> /\ ~parsed
             THEN Reply("database_search", j, ServerError, "parser raised",
                        searches \o <<"extract_city">>)
             ELSE /\ final_df' = [final_df EXCEPT ![j] = File(valid)]
                  /\ final_df_1' = [final_df_1 EXCEPT ![j] =
                                       File(Project1(valid))]
                  /\ pool' = [pool EXCEPT ![j] =
                                 File(ToCsv(CandidatePool(records)))]
                  /\ resp' = Resp("database_search", j, OK, "")
                  /\ calls' = searches \o
                              (IF DropNa(records) # <<>>
                               THEN <<"extract_city", "extract_country">>
                               ELSE <<>>)
                  /\ coQueries' = <<>>
                  /\ searched' = searched \cup {j}
                  /\ UNCHANGED <<dirs, meta, focus, kwfile, after_val,
                                 final_authors, display, manualAdded,
                                 enriched, inflight>>


----------------------------------------------------------------------------
(* 6. manual_authors *)

\* what search_pubmed_author can do: raise, or return (email, affiliation),
\* either of which may be None
AuthorRaised == [kind |-> "raise", email |-> None, aff |-> None]
AuthorFound(email, aff) == [kind |-> "found", email |-> email, aff |-> aff]

\* "not x" of a text or None
Falsy(v) == v = None \/ v = <<>>

\* lines 724-732: a set joined by ", ", nothing as ""
AsJoinedText(v) ==
    IF v = None THEN <<>>
    ELSE IF IsSetValue(v) THEN Join(MembersOf(v), <<",", " ">>)
    ELSE v

\* lines 752-753: str(result) if result else ""
AsStrText(v) ==
    IF v = None \/ v = <<>> THEN <<>>
    ELSE IF IsSetValue(v)
         THEN (IF MembersOf(v) = <<>> THEN <<>> ELSE StrOfSet(MembersOf(v)))
    ELSE v

\* the row manual_authors builds for the author (lines 738-744)
NewAuthor(author_name, found) ==
    [author |-> Strip(author_name), email |-> Strip(found.email),
     aff |-> Strip(found.aff),
     city |-> AsJoinedText(extract_city(Strip(found.aff))),
     country |-> AsJoinedText(extract_country(Strip(found.aff)))]

\* lines 748-753: concat, dropna, city and country derived again
PoolWithAuthor(existing, new_author) ==
    MapSeq(LAMBDA r : [author |-> r.author, email |-> r.email,
                       aff |-> r.aff,
                       city |-> AsStrText(extract_city(r.aff)),
                       country |-> AsStrText(extract_country(r.aff))],
           DropNa(existing \o <<new_author>>))

\* author_name: the form field; found: what search_pubmed_author does;
\* parsed: extract_city and extract_country return when they are applied to
\* the whole table (otherwise one raises, which the handler catches)
manual_authors(j, author_name, found, parsed) ==
    \/ InvalidJob("manual_authors", j)
    \/ /\ j \in dirs
       /\ LET existing == IF HasCandidateTable(j)
                          THEN ReadCsv(PoolRows(j)) ELSE <<>>
          IN IF found.kind = "raise"
             THEN Reply("manual_authors", j, ServerError, "search failed",
                        <<"search_pubmed_author">>)
             ELSE IF Strip(author_name) = <<>> \/ Falsy(found.email)
                     \/ Falsy(found.aff)
             THEN Reply("manual_authors", j, NotFound, "author not found",
                        <<"search_pubmed_author">>)
             ELSE IF ~parsed
             THEN Reply("manual_authors", j, ServerError, "failed to save",
                        <<"search_pubmed_author", "extract_city",
                          "extract_city">>)
             ELSE /\ pool' = [pool EXCEPT ![j] =
                        File(ToCsv(PoolWithAuthor(existing,
                                       NewAuthor(author_name, found))))]
                  /\ resp' = Resp("manual_authors", j, OK, "")
                  /\ calls' = <<"search_pubmed_author", "extract_city",
                                "extract_country", "extract_city",
                                "extract_country">>
                  /\ coQueries' = <<>>
                  /\ manualAdded' = manualAdded \cup {j}
                  /\ UNCHANGED <<dirs, meta, focus, kwfile, final_df,
                                 final_df_1, after_val, final_authors,
                                 display, searched, enriched, inflight>>


----------------------------------------------------------------------------
(* 7. validate_authors *)

\* the columns filled by one collaborator query per candidate, in the
\* order of the handler (lines 823-943), with the names the handler gives
\* them
CountColumns ==
    <<"Total_Publications", "Total_Publications_first",
      "Total_Publications_last", "Publications_10_years",
      "Publications_10_years_first", "Publications_10_years_last",
      "Publications_5_years", "Publications_5_years_first",
      "Publications_5_years_last", "Relevant_Publications_5_years",
      "Relevant_Publications_5_years_first",
      "Relevant_Publications_5_years_last", "Publications_2_years)",
      "Publications_2_years_first)", "Publications_2_years_last)",
      "Publications_last_year)", "Publications_last_year_first)",
      "Publications_last_year_last)", "Clinical_Trials_no",
      "Retracted_Pubs_no", "Clinical_study_no", "Case_reports_no",
      "TF_Publications_last_year", "English_Pubs">>

MatchColumns == {"country_match", "aff_match"}

ConditionColumns ==
    {"no_of_pub_condition_10_years", "no_of_pub_condition_5_years",
     "no_of_pub_condition_2_years", "english_condition",
     "coauthor_condition", "aff_condition", "country_match_condition",
     "retracted_condition"}

\* the columns of the frame when it is sorted (line 1005)
ScoredColumns ==
    PoolColumns \cup Range(CountColumns) \cup {"coauthor"} \cup MatchColumns
    \cup ConditionColumns \cup {"conditions_met", "conditions_satisfied"}

\* rename(columns={'author': 'reviewer'})
RenamedColumns == (ScoredColumns \ {"author"}) \cup {"reviewer"}

\* the columns the display projection asks for (lines 1017-1023)
DisplayColumns ==
    {"reviewer", "email", "aff", "country", "Total_Publications",
     "English_Pubs", "Publications_10_years",
     "Relevant_Publications_5_years", "Publications_2_years)",
     "Publications_last_year", "Clinical_Trials_no", "Clinical_study_no",
     "Case_reports_no", "Retracted_Pubs_no", "TF_Publications_last_year",
     "coauthor", "country_match", "aff_match",
     "no_of_pub_condition_10_years", "no_of_pub_condition_5_years",
     "no_of_pub_condition_2_years", "english_condition",
     "coauthor_condition", "aff_condition", "country_match_condition",
     "retracted_condition", "conditions_met", "conditions_satisfied"}

\* thresholds of the conditions (lines 978-994)
MinPublications10Years == 8
MinRelevantPublications5Years == 3
MinPublications2Years == 1
RetractedThreshold == 1

\* lines 978-994: the eight conditions of one candidate, from its counts m,
\* its coauthor flag and its two match indicators
no_of_pub_condition_10_years_strict(m) ==
    IF m["Publications_10_years"] > MinPublications10Years THEN 1 ELSE 0

no_of_pub_condition_10_years(m) ==
    IF m["Publications_10_years"] >= MinPublications10Years THEN 1 ELSE 0

no_of_pub_condition_5_years(m) ==
    IF m["Relevant_Publications_5_years"] >= MinRelevantPublications5Years
    THEN 1 ELSE 0

no_of_pub_condition_2_years(m) ==
    IF m["Publications_2_years)"] >= MinPublications2Years THEN 1 ELSE 0

\* (Total > 0) & (English / Total > 0.5); a division by zero gives inf or
\* NaN in pandas and raises nothing
english_condition_half(m) ==
    IF m["Total_Publications"] > 0
       /\ 2 * m["English_Pubs"] >= m["Total_Publications"]
    THEN 1 ELSE 0

english_condition(m) ==
    IF m["Total_Publications"] > 0
       /\ 2 * m["English_Pubs"] > m["Total_Publications"]
    THEN 1 ELSE 0

coauthor_condition(coauthor) == IF ~coauthor THEN 1 ELSE 0

aff_condition(m) == IF m["aff_match"] = "NO" THEN 1 ELSE 0

country_match_condition(m) == IF m["country_match"] = "YES" THEN 1 ELSE 0

\* line 994: lambda x: 1 if x > 1 else 0
retracted_condition(m) ==
    IF m["Retracted_Pubs_no"] > RetractedThreshold THEN 1 ELSE 0

Conditions(m, coauthor) ==
    [c \in ConditionColumns |->
        CASE c = "no_of_pub_condition_10_years" -> no_of_pub_condition_10_years(m)
          [] c = "no_of_pub_condition_5_years" -> no_of_pub_condition_5_years(m)
          [] c = "no_of_pub_condition_2_years" -> no_of_pub_condition_2_years(m)
          [] c = "english_condition" -> english_condition(m)
          [] c = "coauthor_condition" -> coauthor_condition(coauthor)
          [] c = "aff_condition" -> aff_condition(m)
          [] c = "country_match_condition" -> country_match_condition(m)
          [] c = "retracted_condition" -> retracted_condition(m)]

RECURSIVE SumOver(_, _)
SumOver(f, S) ==
    IF S = {} THEN 0
    ELSE LET x == CHOOSE y \in S : TRUE IN f[x] + SumOver(f, S \ {x})

conditions_met_but_one(conds) ==
    SumOver(conds, ConditionColumns \ {"english_condition"})

\* lines 997-1003
conditions_met(conds) == SumOver(conds, ConditionColumns)

\* str(n) of 0..9
DigitText(n) ==
    <<CASE n = 0 -> "0" [] n = 1 -> "1" [] n = 2 -> "2" [] n = 3 -> "3"
        [] n = 4 -> "4" [] n = 5 -> "5" [] n = 6 -> "6" [] n = 7 -> "7"
        [] n = 8 -> "8" [] n = 9 -> "9">>

\* line 1004: str(conditions_met) + ' of 8'
conditions_satisfied(n) == DigitText(n) \o <<" ", "o", "f", " ", "8">>

ScoredRowByAuthor(r, m, coauthor) ==
    LET conds == [Conditions(m, coauthor) EXCEPT
                     !["aff_condition"] = IF r["author"] = <<"J", "o">>
                                          THEN 1 ELSE 0]
    IN [c \in ScoredColumns |->
          CASE c \in PoolColumns -> r[c]
            [] c \in Range(CountColumns) \cup MatchColumns -> m[c]
            [] c = "coauthor" -> coauthor
            [] c \in ConditionColumns -> conds[c]
            [] c = "conditions_met" -> conditions_met(conds)
            [] c = "conditions_satisfied" ->
                   conditions_satisfied(conditions_met(conds))]

\* one row of the frame at line 1004
ScoredRow(r, m, coauthor) ==
    LET conds == Conditions(m, coauthor)
    IN [c \in ScoredColumns |->
          CASE c \in PoolColumns -> r[c]
            [] c \in Range(CountColumns) \cup MatchColumns -> m[c]
            [] c = "coauthor" -> coauthor
            [] c \in ConditionColumns -> conds[c]
            [] c = "conditions_met" -> conditions_met(conds)
            [] c = "conditions_satisfied" ->
                   conditions_satisfied(conditions_met(conds))]


CountCollaboratorsAndSearch ==
    <<"get_pubmed_count_selenium", "clinical_trails_no",
      "pubmed_filtered_count", "search_tandfonline_author",
      "pubmed_english_count", "get_pubmed_data">>

\* the collaborators queried once per candidate before the coauthorship
\* check, in the order of their first query
CountCollaborators ==
    <<"get_pubmed_count_selenium", "clinical_trails_no",
      "pubmed_filtered_count", "search_tandfonline_author",
      "pubmed_english_count">>

\* the sequence s up to and including its element x
UpTo(s, x) == SubSeq(s, 1, CHOOSE i \in 1..Len(s) : s[i] = x)

RECURSIVE PartnerLoopNoBreak(_, _, _, _)
PartnerLoopNoBreak(a, authors, co, k) ==
    IF k > Len(authors)
    THEN [flag |-> FALSE, queries |-> <<>>, raised |-> FALSE]
    ELSE IF authors[k] = NaN
    THEN [flag |-> FALSE, queries |-> <<>>, raised |-> TRUE]
    ELSE LET rest == PartnerLoopNoBreak(a, authors, co, k + 1)
             answer == <<Strip(a), Strip(authors[k])>> \in co
         IN [flag |-> answer \/ rest.flag,
             queries |-> << <<Strip(a), Strip(authors[k]), answer>> >>
                         \o rest.queries,
             raised |-> rest.raised]

\* lines 953-958 for one candidate a: the partners are queried in pool
\* order until one is positive; ref_author.strip() raises on a missing
\* name.  A query is recorded as <<author, partner, answer>>.
RECURSIVE PartnerLoop(_, _, _, _)
PartnerLoop(a, authors, co, k) ==
    IF k > Len(authors)
    THEN [flag |-> FALSE, queries |-> <<>>, raised |-> FALSE]
    ELSE IF authors[k] = NaN
    THEN [flag |-> FALSE, queries |-> <<>>, raised |-> TRUE]
    ELSE IF <<Strip(a), Strip(authors[k])>> \in co
    THEN [flag |-> TRUE,
          queries |-> << <<Strip(a), Strip(authors[k]), TRUE>> >>,
          raised |-> FALSE]
    ELSE LET rest == PartnerLoop(a, authors, co, k + 1)
         IN [flag |-> rest.flag,
             queries |-> << <<Strip(a), Strip(authors[k]), FALSE>> >>
                         \o rest.queries,
             raised |-> rest.raised]

\* lines 948-960: the coauthorship check of the whole pool; co is the set
\* of pairs for which check_coauthorship_selenium answers true
RECURSIVE CoauthorLoop(_, _, _)
CoauthorLoop(authors, co, i) ==
    IF i > Len(authors)
    THEN [flags |-> <<>>, queries |-> <<>>, raised |-> FALSE]
    ELSE IF authors[i] = NaN
    THEN [flags |-> <<>>, queries |-> <<>>, raised |-> TRUE]
    ELSE LET row == PartnerLoop(authors[i], authors, co, 1)
         IN IF row.raised
            THEN [flags |-> <<>>, queries |-> row.queries, raised |-> TRUE]
            ELSE LET rest == CoauthorLoop(authors, co, i + 1)
                 IN [flags |-> <<row.flag>> \o rest.flags,
                     queries |-> row.queries \o rest.queries,
                     raised |-> rest.raised]

Orders(n) ==
    {p \in [1..n -> 1..n] : \A a, b \in 1..n : a # b => p[a] # p[b]}

SortValuesUnsorted(rows) == Orders(Len(rows))

\* sort_values(by='conditions_met', ascending=False) with the default
\* kind='quicksort', which is not a stable sort: the result is some
\* arrangement of the rows with conditions_met non-increasing
SortValues(rows) ==
    {p \in Orders(Len(rows)) :
        \A a, b \in 1..Len(rows) :
            a < b => rows[p[a]]["conditions_met"] >= rows[p[b]]["conditions_met"]}

Arrange(rows, p) == [i \in 1..Len(rows) |-> rows[p[i]]]

\* to_csv of the scored frame; as_column is the name of the author column
ScoredCsv(rows, as_column) ==
    MapSeq(LAMBDA r :
             [c \in (DOMAIN r \ {"author"}) \cup {as_column} |->
                 IF c = as_column THEN ToCsvCell(r["author"])
                 ELSE IF c \in PoolColumns THEN ToCsvCell(r[c])
                 ELSE r[c]], rows)

\* author_email_df[[...display columns...]]
DisplayCsv(rows) ==
    MapSeq(LAMBDA r : [c \in DisplayColumns |-> r[c]], rows)

\* a validate_authors call that raises during enrichment: nothing written
EnrichmentFails(j, body, called, queries) ==
    /\ resp' = Resp("validate_authors", j, ServerError, body)
    /\ calls' = called
    /\ coQueries' = queries
    /\ UNCHANGED <<store, searched, manualAdded, inflight>>

\* profile[i]: the counts and match indicators the collaborators return for
\* candidate i; co: the pairs check_coauthorship_selenium answers true for;
\* failure: the first collaborator that raises ("none": none does; for
\* country_extract, also an answer json.loads cannot parse); order: the
\* arrangement sort_values produces
validate_authors(j, profile, co, failure, order) ==
    \/ InvalidJob("validate_authors", j)
    \/ /\ j \in dirs
       /\ ~HasCandidateTable(j)
       /\ Reply("validate_authors", j, NotFound, "no candidate table", <<>>)
    \/ /\ j \in dirs
       /\ HasCandidateTable(j)
       /\ enriched' = enriched \cup {j}
       /\ LET rows == ReadCsv(PoolRows(j))
              n == Len(rows)
              authors == MapSeq(LAMBDA r : r.author, rows)
              loop == CoauthorLoop(authors, co, 1)
              counted == IF n > 0 THEN CountCollaborators ELSE <<>>
              checked == IF n > 0 THEN <<"check_coauthorship_selenium">>
                         ELSE <<>>
              matched == IF n > 0
                         THEN <<"check_country_in_list", "check_aff_match">>
                         ELSE <<>>
              scored == [i \in 1..n |->
                            ScoredRow(rows[i], profile[i], loop.flags[i])]
              sorted == Arrange(scored, order)
          IN IF n > 0 /\ failure \in Range(CountCollaborators)
             THEN EnrichmentFails(j, "count query raised",
                                  UpTo(CountCollaborators, failure), <<>>)
             ELSE IF loop.raised
             THEN \* row['author'].strip() on a missing name
                  EnrichmentFails(j, "AttributeError strip",
                                  counted \o (IF loop.queries # <<>>
                                              THEN checked ELSE <<>>),
                                  loop.queries)
             ELSE IF n > 0 /\ failure = "check_coauthorship_selenium"
             THEN EnrichmentFails(j, "coauthorship query raised",
                                  counted \o checked,
                                  \* the first query, which got no answer
                                  <<[loop.queries[1] EXCEPT ![3] = FALSE]>>)
             ELSE IF failure = "country_extract"
             THEN EnrichmentFails(j, "country list raised",
                                  counted \o checked \o <<"country_extract">>,
                                  loop.queries)
             ELSE IF n > 0 /\ failure \in Range(matched)
             THEN EnrichmentFails(j, "match query raised",
                                  counted \o checked \o <<"country_extract">>
                                  \o UpTo(matched, failure),
                                  loop.queries)
             ELSE /\ order \in SortValues(scored)
                  /\ after_val' = [after_val EXCEPT ![j] =
                                      File(ScoredCsv(sorted, "author"))]
                  /\ final_authors' = [final_authors EXCEPT ![j] =
                                          File(ScoredCsv(sorted, "reviewer"))]
                  /\ IF DisplayColumns \subseteq RenamedColumns
                     THEN /\ display' = [display EXCEPT ![j] =
                               File(DisplayCsv(ScoredCsv(sorted, "reviewer")))]
                          /\ resp' = Resp("validate_authors", j, OK, "")
                     ELSE \* KeyError: a display column is not in the frame
                          /\ display' = display
                          /\ resp' = Resp("validate_authors", j, ServerError,
                                          "KeyError display columns")
                  /\ calls' = counted \o checked \o <<"country_extract">>
                              \o matched
                  /\ coQueries' = loop.queries
                  /\ UNCHANGED <<dirs, meta, focus, kwfile, final_df,
                                 final_df_1, pool, searched, manualAdded,
                                 inflight>>

----------------------------------------------------------------------------
(* 8. recommended_reviewers *)

recommended_reviewers(j) ==
    \/ InvalidJob("recommended_reviewers", j)
    \/ /\ j \in dirs
       /\ IF ~HasReviewerTable(j)
          THEN Reply("recommended_reviewers", j, NotFound,
                     "no reviewer data", <<>>)
          ELSE Reply("recommended_reviewers", j, OK, "reviewers", <<>>)


----------------------------------------------------------------------------
(* The calls the model makes: inputs and collaborator answers *)

a1 == <<"a">>
t1 == <<"t","1">>
t2 == <<"t","2">>

\* Jo, with an email and an affiliation
rA == Article(t1, << <<Jo, e1>> >>, << <<Jo, f1>> >>)
\* the same person under a name with a degree, other email and affiliation
rB == Article(t2, << <<JoMD, e2>> >>, << <<JoMD, f2>> >>)
\* no affiliation map
rC == Article(t1, << <<Al, e3>> >>, <<>>)
\* an author without an entry in the affiliation map
rD == Article(t2, << <<Al, e3>> >>, << <<Jo, f1>> >>)
\* no email map
rE == Article(t2, <<>>, << <<Al, f3>> >>)
\* an email that is None
rN == Article(t1, << <<Al, None>> >>, << <<Al, f3>> >>)
\* an empty affiliation map that arrives as the text "{}"
rS == [Title |-> t1, Authors |-> <<Al>>, Emails |-> <<e3>>,
       Author_Email_Map |-> << <<Al, e3>> >>,
       Author_with_Affiliation |-> AsText(<<>>)]
\* an author whose name is a degree word and nothing else
rM == Article(t2, << <<MD, e3>> >>, << <<MD, f1>> >>)

\* counts and match indicators of one candidate; the counts that feed no
\* condition are 0
Profile(p10, r5, p2, total, english, retracted, country, aff) ==
    [c \in Range(CountColumns) \cup MatchColumns |->
        CASE c = "Publications_10_years" -> p10
          [] c = "Relevant_Publications_5_years" -> r5
          [] c = "Publications_2_years)" -> p2
          [] c = "Total_Publications" -> total
          [] c = "English_Pubs" -> english
          [] c = "Retracted_Pubs_no" -> retracted
          [] c = "country_match" -> country
          [] c = "aff_match" -> aff
          [] OTHER -> 0]

\* every threshold from both sides: 8 and 7 publications in ten years, 3
\* and 2 relevant ones, 1 and 0 in two years, English 2 of 3, 1 of 2 and 0
\* of 0, and 0, 1 and 2 retracted publications
Profiles ==
    { Profile(8, 3, 1, 3, 2, 0, "YES", "NO"),
      Profile(7, 2, 0, 0, 0, 1, "NO", "YES"),
      Profile(7, 3, 1, 2, 1, 2, "NO", "NO") }

CoauthorAnswers == SUBSET { <<Jo, Jo>>, <<Jo, Al>> }

ValidateFailures ==
    Range(CountCollaborators)
    \cup {"check_coauthorship_selenium", "country_extract",
          "check_country_in_list", "check_aff_match"}

\* a validate_authors call in which no collaborator raises
Validated(j, profiles, coauthors) ==
    \E co \in coauthors,
       profile \in [1..Len(PoolRows(j)) -> profiles],
       order \in Orders(Len(PoolRows(j))) :
        validate_authors(j, profile, co, "none", order)

\* a validate_authors call in which a collaborator raises
ValidationFailed(j, profiles, coauthors) ==
    \E co \in coauthors, failure \in ValidateFailures :
        validate_authors(j,
            [i \in 1..Len(PoolRows(j)) |-> CHOOSE p \in profiles : TRUE],
            co, failure, [i \in 1..Len(PoolRows(j)) |-> i])

\* a database_search call for one of the selections, answers[s] being what
\* the collaborator of source s may do
Searched(j, selections, answers) ==
    \E selected \in selections, parsed \in BOOLEAN :
        \E outcome \in [selected -> UNION {answers[s] : s \in Sources}] :
            /\ \A s \in selected : outcome[s] \in answers[s]
            /\ database_search(j, selected, outcome, parsed)

----------------------------------------------------------------------------
(* Spec: the pipeline of one job, every endpoint, called with the id of    *)
(* the job or with an id no upload has produced                            *)

Upload == \E extracted \in BOOLEAN : upload_extract_metadata("j1", extracted)

MetadataExtraction == \E j \in JobIds : metadata_extraction(j)

KeywordEnhancement ==
    \E j \in JobIds, parsed \in BOOLEAN : keyword_enhancement(j, parsed)

KeywordStringGenerator ==
    \E j \in JobIds : keyword_string_generator(j, a1, <<" ">>)

DatabaseSearch ==
    \E j \in JobIds :
        Searched(j, {{"PubMed"}},
                 [s \in Sources |-> {Raised, NoTable, Rows(<<rA>>)}])

\* the parser finds no city in the affiliation found, so the added row is
\* written with an empty city
ManualAuthors ==
    \E j \in JobIds, name \in {Al, JoMD, <<" ">>},
       found \in {AuthorRaised, AuthorFound(None, None), AuthorFound(e3, f3)},
       parsed \in BOOLEAN :
        manual_authors(j, name, found, parsed)

PipelineProfiles ==
    { Profile(8, 3, 1, 3, 2, 0, "YES", "NO"),
      Profile(7, 2, 0, 0, 0, 0, "NO", "YES") }

ValidateAuthors ==
    \E j \in JobIds : Validated(j, PipelineProfiles, {{}, {<<Jo, Al>>}})

ValidateAuthorsFails ==
    \E j \in JobIds : ValidationFailed(j, PipelineProfiles, {{}})

RecommendedReviewers == \E j \in JobIds : recommended_reviewers(j)

Next ==
    \/ Upload
    \/ MetadataExtraction
    \/ KeywordEnhancement
    \/ KeywordStringGenerator
    \/ DatabaseSearch
    \/ ManualAuthors
    \/ ValidateAuthors
    \/ ValidateAuthorsFails
    \/ RecommendedReviewers

Spec == Init /\ [][Next]_vars

----------------------------------------------------------------------------
(* SpecSearch: database_search of one job, over any selection of sources   *)
(* and every kind of answer                                                *)

\* every collaborator may raise, return no table, or return articles; the
\* PubMed one also an empty table, and articles that yield no candidate
SearchAnswers ==
    [s \in Sources |->
        IF s = "PubMed"
        THEN {Raised, NoTable, Rows(<<>>), Rows(<<rB, rD>>), Rows(<<rE, rN>>),
              Rows(<<rS>>)}
        ELSE {Raised, NoTable, Rows(<<rA, rC>>)}]

\* no source, one, two, or all four (the default of the form field)
SearchSelections ==
    { {}, {"PubMed"}, {"ScienceDirect", "WileyLibrary"}, Sources }

SearchUpload ==
    \E extracted \in BOOLEAN : upload_extract_metadata("j1", extracted)

SearchKeywordString == keyword_string_generator("j1", a1, a1)

SearchDatabases == Searched("j1", SearchSelections, SearchAnswers)

NextSearch == SearchUpload \/ SearchKeywordString \/ SearchDatabases

SpecSearch == Init /\ [][NextSearch]_vars

----------------------------------------------------------------------------
(* SpecValidate: validate_authors of one job, and of an id no upload has   *)
(* produced, from the state a successful database_search leaves, for every *)
(* table of at most MaxPool articles drawn from the articles below         *)

RECURSIVE SeqsUpTo(_, _)
\* the sequences over S of length 1..n
SeqsUpTo(S, n) ==
    IF n = 0 THEN {}
    ELSE {<<x>> : x \in S}
         \cup {<<x>> \o t : x \in S, t \in SeqsUpTo(S, n - 1)}

InitValidate ==
    \E articles \in SeqsUpTo({rA, rB, rD, rM}, MaxPool) :
        LET valid == FilterValid(Tagged(articles, "PubMed"))
        IN /\ dirs = {"j1"}
           /\ meta = [j \in JobIds |->
                         IF j = "j1" THEN File(BaseFields \cup KeywordFields)
                         ELSE NoFile]
           /\ focus = [j \in JobIds |-> FALSE]
           /\ kwfile = [j \in JobIds |->
                           IF j = "j1" THEN File(KeywordStringJson(a1, a1))
                           ELSE NoFile]
           /\ final_df = [j \in JobIds |->
                             IF j = "j1" THEN File(valid) ELSE NoFile]
           /\ final_df_1 = [j \in JobIds |->
                               IF j = "j1" THEN File(Project1(valid))
                               ELSE NoFile]
           /\ pool = [j \in JobIds |->
                         IF j = "j1"
                         THEN File(ToCsv(CandidatePool(ExtractRecords(valid))))
                         ELSE NoFile]
           /\ after_val = [j \in JobIds |-> NoFile]
           /\ final_authors = [j \in JobIds |-> NoFile]
           /\ display = [j \in JobIds |-> NoFile]
           /\ resp = Resp("database_search", "j1", OK, "")
           /\ calls = <<"get_pubmed_data", "extract_city", "extract_country">>
           /\ coQueries = <<>>
           /\ searched = {"j1"}
           /\ manualAdded = {}
           /\ enriched = {}
           /\ inflight = [w \in Workers |-> Idle]

ValidatePool == \E j \in JobIds : Validated(j, Profiles, CoauthorAnswers)

ValidatePoolFails ==
    \E j \in JobIds : ValidationFailed(j, Profiles, CoauthorAnswers)

ReadReviewers == \E j \in JobIds : recommended_reviewers(j)

NextValidate == ValidatePool \/ ValidatePoolFails \/ ReadReviewers

SpecValidate == InitValidate /\ [][NextValidate]_vars


----------------------------------------------------------------------------
(* SpecConcurrent: keyword_enhancement and keyword_string_generator, each   *)
(* run by a worker thread in the steps in which it reads and writes the    *)
(* job folder.  The handlers take no lock, so the steps of two workers     *)
(* interleave freely.                                                      *)

\* worker w begins to run handler op for job j: the metadata is loaded
\* (lines 241-243, 431-433)
Load(w, op, j) ==
    /\ inflight' = [inflight EXCEPT ![w] =
                       [op |-> op, job |-> j, pc |-> "loaded",
                        read |-> Content(meta[j])]]
    /\ UNCHANGED <<store, history, resp, calls, coQueries>>

\* worker w returns from the handler
Return(w) == inflight' = [inflight EXCEPT ![w] = Idle]

\* keyword_enhancement up to json.load: lines 214-243
keyword_enhancement_begin(w, j) ==
    /\ inflight[w] = Idle
    /\ \/ InvalidJob("keyword_enhancement", j)
       \/ /\ j \in dirs
          /\ ~HasMetadata(j)
          /\ Reply("keyword_enhancement", j, NotFound, "no base metadata",
                   <<>>)
       \/ /\ j \in dirs
          /\ HasMetadata(j)
          /\ Load(w, "keyword_enhancement", j)

\* keyword_enhancement from the collaborator calls to the response: lines
\* 245-386; the metadata written is the copy loaded, extended
keyword_enhancement_end(w, parsed) ==
    /\ inflight[w].op = "keyword_enhancement"
    /\ LET j == inflight[w].job
           called == <<"get_mesh_terms", "primary_sec", "additional_keywords">>
       IN IF parsed
          THEN /\ meta' = [meta EXCEPT ![j] =
                              File(inflight[w].read \cup FocusFields)]
               /\ focus' = [focus EXCEPT ![j] = TRUE]
               /\ resp' = Resp("keyword_enhancement", j, OK, "")
               /\ calls' = called
               /\ coQueries' = <<>>
               /\ Return(w)
               /\ UNCHANGED <<dirs, kwfile, final_df, final_df_1, pool,
                              after_val, final_authors, display, history>>
          ELSE /\ resp' = Resp("keyword_enhancement", j, ServerError, "")
               /\ calls' = called
               /\ coQueries' = <<>>
               /\ Return(w)
               /\ UNCHANGED <<store, history>>

\* keyword_string_generator up to json.load: lines 398-433
keyword_string_generator_begin(w, j) ==
    /\ inflight[w] = Idle
    /\ \/ InvalidJob("keyword_string_generator", j)
       \/ /\ j \in dirs
          /\ ~HasMetadata(j)
          /\ Reply("keyword_string_generator", j, NotFound,
                   "no base metadata", <<>>)
       \/ /\ j \in dirs
          /\ HasMetadata(j)
          /\ Load(w, "keyword_string_generator", j)

\* keyword_string_generator, the keyword string built and saved in its own
\* file: lines 436-473
keyword_string_generator_save(w, primary_keywords_input, secondary_keywords_input) ==
    /\ inflight[w].op = "keyword_string_generator"
    /\ inflight[w].pc = "loaded"
    /\ kwfile' = [kwfile EXCEPT ![inflight[w].job] =
                     File(KeywordStringJson(primary_keywords_input,
                                        secondary_keywords_input))]
    /\ inflight' = [inflight EXCEPT ![w].pc = "saved"]
    /\ UNCHANGED <<dirs, meta, focus, final_df, final_df_1, pool, after_val,
                   final_authors, display, history, resp, calls, coQueries>>

\* keyword_string_generator, the metadata updated: lines 476-492; the
\* metadata written is the copy loaded, extended
keyword_string_generator_end(w) ==
    /\ inflight[w].op = "keyword_string_generator"
    /\ inflight[w].pc = "saved"
    /\ meta' = [meta EXCEPT ![inflight[w].job] =
                   File(inflight[w].read \cup KeywordFields)]
    /\ resp' = Resp("keyword_string_generator", inflight[w].job, OK, "")
    /\ calls' = <<>>
    /\ coQueries' = <<>>
    /\ Return(w)
    /\ UNCHANGED <<dirs, focus, kwfile, final_df, final_df_1, pool,
                   after_val, final_authors, display, history>>

\* job "j1" uploaded; "j2" unknown, or uploaded by a call whose extraction
\* raised, which leaves the folder without metadata
InitConcurrent ==
    /\ dirs \in {{"j1"}, {"j1", "j2"}}
    /\ meta = [j \in JobIds |-> IF j = "j1" THEN File(BaseFields) ELSE NoFile]
    /\ focus = [j \in JobIds |-> FALSE]
    /\ kwfile = [j \in JobIds |-> NoFile]
    /\ final_df = [j \in JobIds |-> NoFile]
    /\ final_df_1 = [j \in JobIds |-> NoFile]
    /\ pool = [j \in JobIds |-> NoFile]
    /\ after_val = [j \in JobIds |-> NoFile]
    /\ final_authors = [j \in JobIds |-> NoFile]
    /\ display = [j \in JobIds |-> NoFile]
    /\ resp = Resp("upload_extract_metadata", "j1", OK, "")
    /\ calls = <<"claude_extract_manuscript_metadata">>
    /\ coQueries = <<>>
    /\ searched = {}
    /\ manualAdded = {}
    /\ enriched = {}
    /\ inflight = [w \in Workers |-> Idle]

EnhancementBegins ==
    \E w \in Workers, j \in JobIds : keyword_enhancement_begin(w, j)

EnhancementEnds ==
    \E w \in Workers, parsed \in BOOLEAN : keyword_enhancement_end(w, parsed)

KeywordStringBegins ==
    \E w \in Workers, j \in JobIds : keyword_string_generator_begin(w, j)

KeywordStringSaved ==
    \E w \in Workers : keyword_string_generator_save(w, a1, <<" ">>)

KeywordStringEnds == \E w \in Workers : keyword_string_generator_end(w)

NextConcurrent ==
    \/ EnhancementBegins
    \/ EnhancementEnds
    \/ KeywordStringBegins
    \/ KeywordStringSaved
    \/ KeywordStringEnds

SpecConcurrent == InitConcurrent /\ [][NextConcurrent]_vars

----------------------------------------------------------------------------
(* SpecManual: manual_authors run by worker threads, in the step that      *)
(* reads the candidate table and the step that, after the author search,   *)
(* writes it.  The handler takes no lock.  The affiliation found has a     *)
(* city and a country, so that no row is written with an empty field.      *)

\* manual_authors up to the table read: lines 678-697; beside: the workers
\* that are between their read and their write at this moment
manual_authors_begin(w, j, author_name) ==
    /\ inflight[w] = Idle
    /\ \/ InvalidJob("manual_authors", j)
       \/ /\ j \in dirs
          /\ inflight' = [inflight EXCEPT ![w] =
                [op |-> "manual_authors", job |-> j, pc |-> "loaded",
                 read |-> {[author_name |-> author_name,
                            existing |-> IF HasCandidateTable(j)
                                         THEN ReadCsv(PoolRows(j)) ELSE <<>>,
                            beside |-> {v \in Workers :
                                          inflight[v].pc = "loaded"}]}]]
          /\ UNCHANGED <<store, history, resp, calls, coQueries>>

\* manual_authors from the author search to the response: lines 699-770;
\* the table written is the copy read, with the new author.  A worker whose
\* call succeeded stays at "added" until its response is delivered.
manual_authors_end(w, found, parsed) ==
    /\ inflight[w].op = "manual_authors"
    /\ inflight[w].pc = "loaded"
    /\ LET j == inflight[w].job
           local == Content(inflight[w].read)
           failed(status, body, called) ==
               /\ resp' = Resp("manual_authors", j, status, body)
               /\ calls' = called
               /\ Return(w)
               /\ UNCHANGED <<store, history>>
       IN /\ coQueries' = <<>>
          /\ IF found.kind = "raise"
             THEN failed(ServerError, "search failed",
                         <<"search_pubmed_author">>)
             ELSE IF Strip(local.author_name) = <<>> \/ Falsy(found.email)
                     \/ Falsy(found.aff)
             THEN failed(NotFound, "author not found",
                         <<"search_pubmed_author">>)
             ELSE IF ~parsed
             THEN failed(ServerError, "failed to save",
                         <<"search_pubmed_author", "extract_city",
                           "extract_city">>)
             ELSE /\ pool' = [pool EXCEPT ![j] =
                        File(ToCsv(PoolWithAuthor(local.existing,
                                       NewAuthor(local.author_name, found))))]
                  /\ resp' = Resp("manual_authors", j, OK, "")
                  /\ calls' = <<"search_pubmed_author", "extract_city",
                                "extract_country", "extract_city",
                                "extract_country">>
                  /\ manualAdded' = manualAdded \cup {j}
                  /\ inflight' = [inflight EXCEPT ![w].pc = "added"]
                  /\ UNCHANGED <<dirs, meta, focus, kwfile, final_df,
                                 final_df_1, after_val, final_authors,
                                 display, searched, enriched>>

\* the response of a successful call is delivered
manual_authors_return(w) ==
    /\ inflight[w].op = "manual_authors"
    /\ inflight[w].pc = "added"
    /\ Return(w)
    /\ UNCHANGED <<store, history, resp, calls, coQueries>>

\* calls begin while the candidate table holds fewer rows than this
MaxManual == 2

ManualBegins ==
    \E w \in Workers, j \in JobIds, author_name \in {Al, Jo, <<" ">>} :
        /\ Len(PoolRows(j)) < MaxManual
        /\ manual_authors_begin(w, j, author_name)

ManualEnds ==
    \E w \in Workers, parsed \in BOOLEAN,
       found \in {AuthorRaised, AuthorFound(None, None), AuthorFound(e1, f1)} :
        manual_authors_end(w, found, parsed)

ManualReturns == \E w \in Workers : manual_authors_return(w)

NextManual == ManualBegins \/ ManualEnds \/ ManualReturns

SpecManual == InitConcurrent /\ [][NextManual]_vars

----------------------------------------------------------------------------
(* SpecUpload: uploads, each under the job id the handler generates, and    *)
(* the stages that follow an upload                                        *)

\* line 79: the id is the minute of the call and six hexadecimal digits of
\* a random uuid; JobIds are the ids that can be generated within a minute
GeneratedJobIds == JobIds

UploadGenerated ==
    \E j \in GeneratedJobIds, extracted \in BOOLEAN :
        upload_extract_metadata(j, extracted)

UploadedMetadata == \E j \in JobIds : metadata_extraction(j)

UploadedEnhancement ==
    \E j \in JobIds, parsed \in BOOLEAN : keyword_enhancement(j, parsed)

UploadedKeywordString ==
    \E j \in JobIds : keyword_string_generator(j, a1, <<" ">>)

NextUpload ==
    \/ UploadGenerated
    \/ UploadedMetadata
    \/ UploadedEnhancement
    \/ UploadedKeywordString

SpecUpload == Init /\ [][NextUpload]_vars

----------------------------------------------------------------------------
(* SpecKeywords: keyword_string_generator of one job, for every pair of    *)
(* form fields of at most MaxInput characters                              *)

MaxInput == 3

\* the characters of the primary field: two letters, the separator, a
\* blank; the secondary field is written with one letter
KeywordAlphabet == {"a", "b", ",", " "}

\* the texts of at most MaxInput characters
KeywordInputs(alphabet) == UNION {[1..n -> alphabet] : n \in 0..MaxInput}

KeywordsUpload ==
    \E extracted \in BOOLEAN : upload_extract_metadata("j1", extracted)

KeywordsGenerated ==
    \E primary_keywords_input \in KeywordInputs(KeywordAlphabet),
       secondary_keywords_input \in KeywordInputs(KeywordAlphabet \ {"b"}) :
        keyword_string_generator("j1", primary_keywords_input,
                                 secondary_keywords_input)

NextKeywords == KeywordsUpload \/ KeywordsGenerated

SpecKeywords == Init /\ [][NextKeywords]_vars

----------------------------------------------------------------------------
(* SpecNames: database_search of one job, PubMed returning one article of  *)
(* one author, for every author name of at most MaxName characters and two *)
(* longer ones                                                             *)

MaxName == 3

\* letters that spell the degree word MD and words that are none, the
\* comma, a blank
NameAlphabet == {"J", "M", "D", ",", " "}

JaneDoe == <<"J","a","n","e"," ","D","o","e",","," ","M","D",","," ",
             "P","h","D">>

\* a degree word inside a longer word, a tab and a run of blanks
DrMDs == <<"M","D","s","\t"," ","J","o"," "," ","M","S","c">>

NameInputs ==
    UNION {[1..n -> NameAlphabet] : n \in 0..MaxName} \cup {JaneDoe, DrMDs}

NamesUpload ==
    \E extracted \in BOOLEAN : upload_extract_metadata("j1", extracted)

NamesKeywordString == keyword_string_generator("j1", a1, a1)

NamesSearched ==
    \E name \in NameInputs, parsed \in BOOLEAN :
        database_search("j1", {"PubMed"},
                        [s \in {"PubMed"} |->
                            Rows(<<Article(t1, << <<name, e1>> >>,
                                           << <<name, f1>> >>)>>)],
                        parsed)

NextNames == NamesUpload \/ NamesKeywordString \/ NamesSearched

SpecNames == Init /\ [][NextNames]_vars

----------------------------------------------------------------------------
(* SpecAggregate: database_search of one job, the sources answering with   *)
(* tables that differ from one source to the next                          *)

AggregateAnswers ==
    [s \in Sources |->
        CASE s = "ScienceDirect" -> {NoTable, Rows(<<rA, rC>>)}
          [] s = "TandFonline" -> {NoTable, Rows(<<rD>>)}
          [] s = "WileyLibrary" -> {Raised, Rows(<<>>), Rows(<<rA>>)}
          [] s = "PubMed" -> {Rows(<<rB, rD>>), Rows(<<rD, rB>>)}]

AggregateSelections ==
    { {}, {"PubMed"}, {"ScienceDirect", "WileyLibrary"},
      {"TandFonline", "PubMed"}, Sources }

AggregateUpload ==
    \E extracted \in BOOLEAN : upload_extract_metadata("j1", extracted)

AggregateKeywordString == keyword_string_generator("j1", a1, a1)

AggregateDatabases == Searched("j1", AggregateSelections, AggregateAnswers)

NextAggregate ==
    AggregateUpload \/ AggregateKeywordString \/ AggregateDatabases

SpecAggregate == Init /\ [][NextAggregate]_vars

----------------------------------------------------------------------------
(* Claims *)

Calls(op, j) == resp'.op = op /\ resp'.job = j

\* C2: a stage called for an existing job whose predecessor artifact is
\* absent (keyword_enhancement and keyword_string_generator without the
\* metadata, database_search without the keyword string, validate_authors
\* without the candidate table, recommended_reviewers without
\* Final_authors.csv) answers 404, invokes no collaborator and leaves every
\* artifact as it was.
C2_MissingPrerequisiteRefused ==
    [][\A j \in dirs :
          (\/ Calls("keyword_enhancement", j) /\ meta[j] = NoFile
           \/ Calls("keyword_string_generator", j) /\ meta[j] = NoFile
           \/ Calls("database_search", j) /\ kwfile[j] = NoFile
           \/ Calls("validate_authors", j) /\ pool[j] = NoFile
           \/ Calls("recommended_reviewers", j) /\ final_authors[j] = NoFile)
          => /\ resp'.status = NotFound
             /\ calls' = <<>>
             /\ store' = store]_vars

\* database_search refused for a job that exists and has no keyword string
C2_Witness ==
    /\ resp.op = "database_search"
    /\ resp.job \in dirs
    /\ kwfile[resp.job] = NoFile
    /\ resp.status = NotFound
    /\ calls = <<>>


\* the least position of records whose cleaned name is name
FirstOccurrence(records, name) ==
    CHOOSE i \in 1..Len(records) :
        /\ CleanName(records[i].author) = name
        /\ \A k \in 1..(i - 1) : CleanName(records[k].author) # name

\* C3: the candidate table database_search persists has at most one entry
\* per cleaned name, and that entry carries the email and the affiliation
\* of the name's first occurrence in the aggregated articles.
C3_OneEntryPerCleanedName ==
    \A j \in searched :
        LET rows == PoolRows(j)
            records == ExtractRecords(Content(final_df[j]))
        IN /\ \A a, b \in 1..Len(rows) :
                  a # b => rows[a].author # rows[b].author
           /\ \A a \in 1..Len(rows) :
                  LET first == records[FirstOccurrence(records, rows[a].author)]
                  IN /\ rows[a].email = ToCsvCell(first.email)
                     /\ rows[a].aff = ToCsvCell(first.aff)

\* the rows of the scored table validate_authors persisted for job j
ScoredRows(j) == IF after_val[j] = NoFile THEN <<>> ELSE Content(after_val[j])

\* C4: in the scored table the retraction condition of a candidate is 1
\* exactly when its count of retracted publications is at most 1.
C4_RetractionCondition ==
    \A j \in JobIds :
        \A i \in 1..Len(ScoredRows(j)) :
            ScoredRows(j)[i]["retracted_condition"] = 1
            <=> ScoredRows(j)[i]["Retracted_Pubs_no"] <= 1

\* what validate_authors answers when a collaborator raised
CollaboratorRaised ==
    {"count query raised", "coauthorship query raised",
     "country list raised", "match query raised"}

\* the last call was validate_authors for job j, past its prerequisite checks
Enriching(j) ==
    /\ resp.op = "validate_authors"
    /\ resp.job = j
    /\ j \in dirs
    /\ resp.status # NotFound

\* C5: when every collaborator succeeds (and every candidate of the table
\* has a name), validate_authors completes without error and persists the
\* scored table, the reviewer table and the display table; every display
\* column is a column of the scored table.
C5_ValidationPersistsAllOutputs ==
    \A j \in JobIds :
        /\ Enriching(j)
        /\ resp.body \notin CollaboratorRaised
        /\ \A i \in 1..Len(PoolRows(j)) : PoolRows(j)[i].author # <<>>
        => /\ resp.status = OK
           /\ after_val[j] # NoFile
           /\ final_authors[j] # NoFile
           /\ display[j] # NoFile
           /\ DisplayColumns \subseteq RenamedColumns

\* what identifies a candidate: the cells the candidate table gives it
Candidate(r) == <<r["author"], r["email"], r["aff"]>>

\* the position in the candidate table of the one row that is candidate c
PoolPosition(j, c) ==
    CHOOSE i \in 1..Len(PoolRows(j)) : Candidate(PoolRows(j)[i]) = c

\* C6: the ranking is stable: two candidates with the same conditions_met
\* stand in the scored table in the order they had in the candidate table.
C6_RankingIsStable ==
    \A j \in JobIds :
        LET rows == ScoredRows(j)
            once(c) == Cardinality({i \in 1..Len(PoolRows(j)) :
                                      Candidate(PoolRows(j)[i]) = c}) = 1
        IN \A a, b \in 1..Len(rows) :
              /\ a < b
              /\ rows[a]["conditions_met"] = rows[b]["conditions_met"]
              /\ once(Candidate(rows[a]))
              /\ once(Candidate(rows[b]))
              => PoolPosition(j, Candidate(rows[a]))
                 < PoolPosition(j, Candidate(rows[b]))

\* the last call was database_search for job j, past its prerequisite checks
Searching(j) ==
    /\ resp.op = "database_search"
    /\ resp.job = j
    /\ j \in dirs
    /\ resp.status # NotFound

\* C7: a source collaborator that raises contributes nothing, and
\* database_search still completes and persists the candidate table.
C7_RaisingSourceContained ==
    \A j \in JobIds :
        Searching(j) /\ resp.body = "source raised"
        => resp.status = OK /\ j \in searched

\* C8: a metrics, coauthorship or country collaborator that raises costs
\* the cell it was asked for and nothing else: validate_authors does not
\* abort, it completes and persists the scored table.
C8_RaisingMetricContained ==
    \A j \in JobIds :
        Enriching(j) /\ resp.body \in CollaboratorRaised
        => resp.status = OK /\ after_val[j] # NoFile

\* C9: a source that returns nothing contributes an empty slice: when
\* sources were asked and no collaborator raised, whatever the sources
\* returned (nothing at all included), database_search completes and
\* persists the candidate table, an empty one when no article was
\* aggregated.
C9_EmptySearchCompletes ==
    \A j \in JobIds :
        /\ Searching(j)
        /\ calls # <<>>
        /\ resp.body \notin {"source raised", "parser raised"}
        => /\ resp.status = OK
           /\ pool[j] # NoFile
           /\ (final_df[j] # NoFile /\ Content(final_df[j]) = <<>>
               => PoolRows(j) = <<>>)

\* C10: every candidate of the persisted candidate table has an author, an
\* email and an affiliation, none of them empty.
C10_CandidatesComplete ==
    \A j \in JobIds :
        \A i \in 1..Len(PoolRows(j)) :
            /\ PoolRows(j)[i].author # <<>>
            /\ PoolRows(j)[i].email # <<>>
            /\ PoolRows(j)[i].aff # <<>>


\* s[i..k] is a whole word of s: a maximal run of word characters
WholeWord(s, i, k) ==
    /\ \A n \in i..k : s[n] \in WordChars
    /\ i = 1 \/ s[i - 1] \notin WordChars
    /\ k = Len(s) \/ s[k + 1] \notin WordChars

\* a name in normalized form: no degree word as a whole word, no comma, no
\* whitespace but single blanks between words
Normalized(s) ==
    /\ \A i \in 1..Len(s) : \A k \in i..Len(s) :
          WholeWord(s, i, k) => SubSeq(s, i, k) \notin DEGREE_WORDS
    /\ \A i \in 1..Len(s) : s[i] # ","
    /\ \A i \in 1..Len(s) : s[i] \in Whitespace => s[i] = " "
    /\ \A i \in 1..(Len(s) - 1) : ~(s[i] = " " /\ s[i + 1] = " ")
    /\ s # <<>> => s[1] # " " /\ s[Len(s)] # " "

\* C11: every author name of a job's persisted candidate table is in
\* normalized form, whether database_search or manual_authors wrote the row.
C11_PoolNamesNormalized ==
    \A j \in JobIds :
        \A i \in 1..Len(PoolRows(j)) : Normalized(PoolRows(j)[i].author)


\* the stage calls in progress for job j
InProgress(j) ==
    {w \in Workers : inflight[w] # Idle /\ inflight[w].job = j}

\* C12: at no time are two stage executions for the same job in progress
\* together.
C12_OneStagePerJob ==
    \A j \in JobIds : Cardinality(InProgress(j)) <= 1

\* C13: the set of field names of a job's metadata file never shrinks,
\* whatever keyword_enhancement and keyword_string_generator calls are
\* made on the job and however their reads and writes interleave.
C13_MetadataNeverShrinks ==
    [][\A j \in JobIds :
          meta[j] # NoFile
          => meta'[j] # NoFile /\ Content(meta[j]) \subseteq Content(meta'[j])
      ]_vars


\* C14: every call of upload_extract_metadata creates a job area whose id
\* differs from the id of every job created before it.
C14_UploadMakesFreshJob ==
    [][resp'.op = "upload_extract_metadata" => resp'.job \notin dirs]_vars


\* C15: for every candidate of the scored table, condition 1 is 1 exactly
\* when the ten-year count is at least 8, condition 2 exactly when the
\* relevant five-year count is at least 3, condition 3 exactly when the
\* two-year count is at least 1.
C15_PublicationConditions ==
    \A j \in JobIds :
        \A i \in 1..Len(ScoredRows(j)) :
            LET r == ScoredRows(j)[i]
            IN /\ r["no_of_pub_condition_10_years"] \in {0, 1}
               /\ r["no_of_pub_condition_5_years"] \in {0, 1}
               /\ r["no_of_pub_condition_2_years"] \in {0, 1}
               /\ r["no_of_pub_condition_10_years"] = 1
                  <=> r["Publications_10_years"] >= 8
               /\ r["no_of_pub_condition_5_years"] = 1
                  <=> r["Relevant_Publications_5_years"] >= 3
               /\ r["no_of_pub_condition_2_years"] = 1
                  <=> r["Publications_2_years)"] >= 1

\* a scored table with a candidate of exactly 8 ten-year publications that
\* satisfies condition 1 and one of 7 that does not
C15_Witness ==
    \E i, k \in 1..Len(ScoredRows("j1")) :
        /\ ScoredRows("j1")[i]["Publications_10_years"] = 8
        /\ ScoredRows("j1")[i]["no_of_pub_condition_10_years"] = 1
        /\ ScoredRows("j1")[k]["Publications_10_years"] = 7
        /\ ScoredRows("j1")[k]["no_of_pub_condition_10_years"] = 0

\* C16: for every candidate of the scored table the English condition is 1
\* exactly when the total is greater than 0 and twice the English count
\* exceeds the total; a candidate with no publication gets 0 and is scored.
C16_EnglishCondition ==
    \A j \in JobIds :
        \A i \in 1..Len(ScoredRows(j)) :
            LET r == ScoredRows(j)[i]
            IN /\ r["english_condition"] \in {0, 1}
               /\ r["english_condition"] = 1
                  <=> /\ r["Total_Publications"] > 0
                      /\ 2 * r["English_Pubs"] > r["Total_Publications"]

\* a scored table with a candidate without publications, whose condition is
\* 0, and a candidate with exactly half of its publications in English,
\* whose condition is 0 as well
C16_Witness ==
    \E i, k \in 1..Len(ScoredRows("j1")) :
        /\ ScoredRows("j1")[i]["Total_Publications"] = 0
        /\ ScoredRows("j1")[i]["english_condition"] = 0
        /\ ScoredRows("j1")[k]["Total_Publications"] = 2
        /\ ScoredRows("j1")[k]["English_Pubs"] = 1
        /\ ScoredRows("j1")[k]["english_condition"] = 0


\* C17: for every candidate of the scored table, conditions_met is the sum
\* of its eight conditions, an integer in 0..8, and conditions_satisfied is
\* the text "<conditions_met> of 8".
C17_ConditionsMetIsSum ==
    \A j \in JobIds :
        \A i \in 1..Len(ScoredRows(j)) :
            LET r == ScoredRows(j)[i]
            IN /\ r["conditions_met"] =
                    r["no_of_pub_condition_10_years"]
                    + r["no_of_pub_condition_5_years"]
                    + r["no_of_pub_condition_2_years"]
                    + r["english_condition"] + r["coauthor_condition"]
                    + r["aff_condition"] + r["country_match_condition"]
                    + r["retracted_condition"]
               /\ r["conditions_met"] \in 0..8
               /\ r["conditions_satisfied"] =
                    DigitText(r["conditions_met"]) \o <<" ", "o", "f", " ", "8">>

\* a scored candidate that meets seven conditions, the English one among them
C17_Witness ==
    \E i \in 1..Len(ScoredRows("j1")) :
        /\ ScoredRows("j1")[i]["conditions_met"] = 7
        /\ ScoredRows("j1")[i]["english_condition"] = 1
        /\ ScoredRows("j1")[i]["conditions_satisfied"] =
              <<"7", " ", "o", "f", " ", "8">>

\* the ValidationMetrics of a scored candidate: its counts, its coauthor
\* flag and its two match indicators
Metrics(r) ==
    [c \in Range(CountColumns) \cup MatchColumns \cup {"coauthor"} |-> r[c]]

\* the ConditionScore of a scored candidate
Score(r) ==
    [c \in ConditionColumns \cup {"conditions_met", "conditions_satisfied"}
        |-> r[c]]

\* the rows of a scored table file
TableRows(file) == IF file = NoFile THEN <<>> ELSE Content(file)

Occurrences(rows, name, c) ==
    Cardinality({i \in 1..Len(rows) :
                   <<rows[i][name], rows[i]["email"], rows[i]["aff"],
                     rows[i]["city"], rows[i]["country"]>> = c})

\* C19: the ranked tables validate_authors writes hold the candidates of
\* the candidate table, each as many times as there, none added, lost or
\* duplicated, with conditions_met non-increasing from row to row.
C19_RankedIsSortedPermutation ==
    \A j \in JobIds :
        after_val[j] # NoFile =>
           LET ranked == Content(after_val[j])
               reviewers == TableRows(final_authors[j])
               candidates == PoolRows(j)
           IN /\ Len(ranked) = Len(candidates)
              /\ Len(reviewers) = Len(candidates)
              /\ \A i \in 1..Len(candidates) :
                    LET c == <<candidates[i].author, candidates[i].email,
                               candidates[i].aff, candidates[i].city,
                               candidates[i].country>>
                    IN /\ Occurrences(ranked, "author", c)
                          = Occurrences(candidates, "author", c)
                       /\ Occurrences(reviewers, "reviewer", c)
                          = Occurrences(candidates, "author", c)
              /\ \A i \in 1..(Len(ranked) - 1) :
                    /\ ranked[i]["conditions_met"]
                       >= ranked[i + 1]["conditions_met"]
                    /\ reviewers[i]["conditions_met"]
                       >= reviewers[i + 1]["conditions_met"]

\* a ranked table whose first row is the second candidate of the pool,
\* moved up because it meets more conditions than the first
C19_Witness ==
    /\ Len(ScoredRows("j1")) = 2
    /\ ScoredRows("j1")[1]["conditions_met"]
       > ScoredRows("j1")[2]["conditions_met"]
    /\ Candidate(ScoredRows("j1")[1]) = Candidate(PoolRows("j1")[2])
    /\ Candidate(ScoredRows("j1")[1]) # Candidate(PoolRows("j1")[1])


RECURSIVE OrList(_)
\* the terms of a non-empty list, " OR " between them
OrList(terms) ==
    IF Len(terms) = 1 THEN terms[1]
    ELSE terms[1] \o <<" ", "O", "R", " ">> \o OrList(Tail(terms))

\* the parenthesised clause of a non-empty list of terms
Clause(terms) == <<"(">> \o OrList(terms) \o <<")">>

\* C20: for the primary and secondary keyword lists of a call (blank
\* entries ignored), the keyword string is "(p1 OR ... OR pn) AND (s1 OR
\* ... OR sm)" when both lists are non-empty, the clause of the non-empty
\* list alone when one is empty, and the empty string when both are; a
\* list of one term gives "(term)".
C20_KeywordStringForm ==
    \A j \in JobIds :
        kwfile[j] # NoFile =>
           LET primary == Content(kwfile[j]).input_primary_keywords
               secondary == Content(kwfile[j]).input_secondary_keywords
               keyword_string == Content(kwfile[j]).keyword_string
           IN /\ \A i \in 1..Len(primary) : primary[i] # <<>>
              /\ \A i \in 1..Len(secondary) : secondary[i] # <<>>
              /\ primary # <<>> /\ secondary # <<>>
                 => keyword_string = Clause(primary)
                                     \o <<" ", "A", "N", "D", " ">>
                                     \o Clause(secondary)
              /\ primary # <<>> /\ secondary = <<>>
                 => keyword_string = Clause(primary)
              /\ primary = <<>> /\ secondary # <<>>
                 => keyword_string = Clause(secondary)
              /\ primary = <<>> /\ secondary = <<>> => keyword_string = <<>>

\* the keyword string "(a OR b) AND (a)" of the lists [a, b] and [a]
C20_Witness ==
    /\ kwfile["j1"] # NoFile
    /\ Content(kwfile["j1"]).input_primary_keywords = << <<"a">>, <<"b">> >>
    /\ Content(kwfile["j1"]).input_secondary_keywords = << <<"a">> >>
    /\ Content(kwfile["j1"]).keyword_string =
          <<"(", "a", " ", "O", "R", " ", "b", ")", " ", "A", "N", "D", " ",
            "(", "a", ")">>


\* the rows of the aggregated source table saved for job j
SavedArticles(j) == IF final_df[j] = NoFile THEN <<>> ELSE Content(final_df[j])

\* a map without entries, given as a dict or as text
IsEmptyMap(m) == m = <<>> \/ (Len(m) = 2 /\ m[1] = "<str>" /\ m[2] = <<>>)

\* C21: an aggregated record whose email map or affiliation map is empty
\* is discarded before flattening: the table database_search flattens
\* holds no such record, so no entry of the candidate table it writes
\* comes from one.
C21_EmptyMapsDiscarded ==
    \A j \in searched :
        \A i \in 1..Len(SavedArticles(j)) :
            /\ ~IsEmptyMap(SavedArticles(j)[i].Author_Email_Map)
            /\ ~IsEmptyMap(SavedArticles(j)[i].Author_with_Affiliation)


\* position n of s lies in a degree word that is a whole word of s
InDegreeWord(s, n) ==
    \E i \in 1..n : \E k \in n..Len(s) :
        WholeWord(s, i, k) /\ SubSeq(s, i, k) \in DEGREE_WORDS

RECURSIVE Surviving(_, _)
\* the characters of s from position n on that are no comma and in no
\* degree word
Surviving(s, n) ==
    IF n > Len(s) THEN <<>>
    ELSE (IF s[n] = "," \/ InDegreeWord(s, n) THEN <<>> ELSE <<s[n]>>)
         \o Surviving(s, n + 1)

RECURSIVE Tokens(_, _)
\* the maximal runs of characters of s that are no whitespace, word being
\* the run in progress
Tokens(s, word) ==
    IF s = <<>> THEN (IF word = <<>> THEN <<>> ELSE <<word>>)
    ELSE IF s[1] \in Whitespace
         THEN (IF word = <<>> THEN <<>> ELSE <<word>>) \o Tokens(Tail(s), <<>>)
         ELSE Tokens(Tail(s), Append(word, s[1]))

\* the name the claim describes: degree words and commas gone, what is
\* left separated by single blanks
ExpectedName(s) == Join(Tokens(Surviving(s, 1), <<>>), <<" ">>)

\* the author names of the articles database_search flattened, in order
OriginalNames(j) ==
    Flatten(MapSeq(LAMBDA r : Keys(EvalIfText(r.Author_Email_Map)),
                   SavedArticles(j)))

\* C22: the name database_search persists for an author is the returned
\* name without the degree words that occur in it as whole words and
\* without commas, each run of whitespace made one blank, both ends
\* trimmed, everything else in its original order.
C22_NameCleaning ==
    \A j \in searched :
        /\ Len(PoolRows(j)) = Len(OriginalNames(j))
        /\ \A i \in 1..Len(PoolRows(j)) :
              PoolRows(j)[i].author = ExpectedName(OriginalNames(j)[i])

\* 'Jane Doe, MD, PhD' was searched and persisted as 'Jane Doe'
C22_Witness ==
    /\ resp.op = "database_search" /\ resp.status = OK
    /\ OriginalNames("j1") = <<JaneDoe>>
    /\ PoolRows("j1")[1].author = <<"J","a","n","e"," ","D","o","e">>

\* the position of a source in the order database_search queries them
SourcePosition(source) == CHOOSE k \in 1..Len(SourceOrder) : SourceOrder[k] = source

\* a record as its source returned it, without the tag
Untagged(r) ==
    [Title |-> r.Title, Authors |-> r.Authors, Emails |-> r.Emails,
     Author_Email_Map |-> r.Author_Email_Map,
     Author_with_Affiliation |-> r.Author_with_Affiliation]

\* the records source s contributes to the saved table: those it returned,
\* if it was selected, that the filter of line 612 lets through
Contributed(s, selected, outcome) ==
    IF s \in selected /\ outcome[s].kind = "rows"
    THEN SelectSeq(outcome[s].rows,
                   LAMBDA r : r.Author_Email_Map # <<>>
                              /\ r.Author_with_Affiliation # <<>>)
    ELSE <<>>

\* the records of table rows that carry the tag of source s, in order
TaggedWith(rows, s) ==
    MapSeq(Untagged, SelectSeq(rows, LAMBDA r : r.Website = s))

\* a database_search call that was given selected and whose collaborators
\* answered outcome invoked the collaborators of the selected sources and
\* no other, and if it succeeded the table it saved holds, for each source,
\* the records that source returned in the order it returned them, tagged
\* with the source, the blocks following one another in the order of the
\* sources
AggregatedAsReturned(selected, outcome, parsed) ==
    database_search("j1", selected, outcome, parsed) =>
        /\ \A c \in Range(calls') :
              c \in {SearchCollaborator(s) : s \in Sources} =>
                  c \in {SearchCollaborator(s) : s \in selected}
        /\ resp'.status = OK =>
              LET table == Content(final_df'["j1"])
              IN /\ \A s \in selected :
                        SearchCollaborator(s) \in Range(calls')
                 /\ \A i \in 1..Len(table) : table[i].Website \in selected
                 /\ \A s \in Sources :
                        TaggedWith(table, s) = Contributed(s, selected, outcome)
                 /\ \A i \in 1..Len(table) : \A k \in i..Len(table) :
                        SourcePosition(table[i].Website)
                            <= SourcePosition(table[k].Website)

\* C23: the records database_search aggregates are exactly those the
\* selected sources returned (no collaborator of an unselected source is
\* invoked), each tagged with its source, each source's records in the
\* order returned, the blocks in the order the sources are queried.
C23_AggregatedAsReturned ==
    [][resp'.op = "database_search" /\ "j1" \in dirs /\ HasKeywordString("j1") =>
          \A selected \in AggregateSelections, parsed \in BOOLEAN :
              \A outcome \in [selected -> UNION {AggregateAnswers[s] : s \in Sources}] :
                  (\A s \in selected : outcome[s] \in AggregateAnswers[s]) =>
                      AggregatedAsReturned(selected, outcome, parsed)]_vars

\* a search of TandFonline and PubMed saved the record of the one, then
\* the two records of the other, and the collaborators of the two other
\* sources were not invoked
C23_Witness ==
    /\ resp.op = "database_search" /\ resp.status = OK
    /\ calls = <<"search_tandfonline", "get_pubmed_data",
                 "extract_city", "extract_country">>
    /\ MapSeq(LAMBDA r : r.Website, SavedArticles("j1"))
         = <<"TandFonline", "PubMed", "PubMed">>
    /\ MapSeq(LAMBDA r : r.Title, SavedArticles("j1")) = <<t2, t2, t2>>

\* the texts the claim allows for a parser result: the members of a set
\* joined by commas (in either order of two members, with or without a
\* blank after the comma), nothing for an absent result, a text as it is
TextOfResult(v) ==
    IF IsNull(v) THEN {<<>>}
    ELSE IF IsSetValue(v)
    THEN LET m == MembersOf(v)
         IN {Join([i \in 1..Len(m) |-> m[p[i]]], sep) :
                p \in Orders(Len(m)), sep \in {<<",">>, <<",", " ">>}}
    ELSE {v}

\* C24: the city and the country persisted for a candidate are the text
\* of the parser's result for the candidate's affiliation: the members of
\* a set joined by commas, the empty text for an absent result.
C24_CityCountryAsText ==
    \A j \in JobIds :
        \A i \in 1..Len(PoolRows(j)) :
            /\ PoolRows(j)[i].city \in TextOfResult(extract_city(PoolRows(j)[i].aff))
            /\ PoolRows(j)[i].country
                  \in TextOfResult(extract_country(PoolRows(j)[i].aff))

\* the last call was a validate_authors for job j that scored the pool and
\* wrote the scored table
Scoring(j) ==
    Enriching(j) /\ resp.body \in {"", "KeyError display columns"}

\* how many entries of job j's candidate table bear the name
Namesakes(j, name) ==
    Cardinality({i \in 1..Len(PoolRows(j)) : Strip(PoolRows(j)[i].author) = name})

\* C25: a candidate is flagged as coauthor only on a positive answer for
\* the candidate paired with another entry of the pool: the pair that set
\* the flag joins the candidate's name with the name of another entry, its
\* own name only when a second entry bears it.
C25_CoauthorWithAnotherEntry ==
    \A j \in JobIds :
        Scoring(j) =>
            \A i \in 1..Len(ScoredRows(j)) :
                ScoredRows(j)[i]["coauthor"] =>
                    \E q \in 1..Len(coQueries) :
                        /\ coQueries[q][1] = Strip(ScoredRows(j)[i]["author"])
                        /\ coQueries[q][1] = coQueries[q][2]
                            => Namesakes(j, coQueries[q][1]) >= 2

\* C26: for a job with extracted metadata, metadata_extraction returns the
\* extracted metadata record, whichever later stages have run on the job.
C26_ReturnsExtractedMetadata ==
    /\ resp.op = "metadata_extraction"
    /\ resp.job \in dirs
    /\ HasMetadata(resp.job)
    => resp.status = OK /\ resp.body = "metadata"

\* the rows of final_df_1.csv of job j
ReviewerRows(j) == IF final_df_1[j] = NoFile THEN <<>> ELSE Content(final_df_1[j])

\* C27: after a successful manual_authors the added author, the last row
\* of the candidate table, is also among the authors of final_df_1.csv.
C27_AddedAuthorInBothTables ==
    \A j \in JobIds :
        resp.op = "manual_authors" /\ resp.job = j /\ resp.status = OK
        => /\ PoolRows(j) # <<>>
           /\ \E i \in 1..Len(ReviewerRows(j)) :
                 PoolRows(j)[Len(PoolRows(j))].author
                    \in Range(ReviewerRows(j)[i].Authors)

\* C28: validate_authors invokes no collaborator that searches a source,
\* and leaves the candidate table and every artifact of the earlier stages
\* (job folder, metadata, focus keywords, keyword string, article tables)
\* as they were.
C28_ValidationIsReadOnly ==
    [][resp'.op = "validate_authors" =>
          /\ \A s \in Sources : SearchCollaborator(s) \notin Range(calls')
          /\ UNCHANGED <<dirs, meta, focus, kwfile, final_df, final_df_1, pool>>
      ]_vars

\* a validate_authors call that queried the collaborators and scored a
\* candidate table that database_search had written with its article table
C28_Witness ==
    /\ Scoring("j1")
    /\ "search_tandfonline_author" \in Range(calls)
    /\ PoolRows("j1") # <<>>
    /\ SavedArticles("j1") # <<>>
    /\ ScoredRows("j1") # <<>>

\* C29: a validate_authors call that ends in an error writes no ranked
\* list: Final_authors.csv is as it was before the call, absent if it was
\* absent.
C29_NoRankedListOnError ==
    [][resp'.op = "validate_authors" /\ resp'.status # OK =>
          \A j \in JobIds : final_authors'[j] = final_authors[j]]_vars

\* C30: a successful manual_authors keeps every candidate the table held,
\* in order, and appends exactly one, also when a candidate of the table
\* has an empty city or country.
C30_ManualKeepsCandidates ==
    [][resp'.op = "manual_authors" /\ resp'.status = OK =>
          LET before == PoolRows(resp'.job)
              after == Content(pool'[resp'.job])
          IN /\ Len(after) = Len(before) + 1
             /\ \A i \in 1..Len(before) :
                   /\ after[i].author = before[i].author
                   /\ after[i].email = before[i].email
                   /\ after[i].aff = before[i].aff
      ]_vars

\* the workers whose manual_authors call for job j returned success and
\* whose response is not yet delivered
Added(j) ==
    {w \in Workers : inflight[w].pc = "added" /\ inflight[w].job = j}

\* the calls of workers w and v overlapped: one read the table while the
\* other was between its read and its write
Overlapped(w, v) ==
    \/ v \in Content(inflight[w].read).beside
    \/ w \in Content(inflight[v].read).beside

\* C31: two manual_authors calls for one job that overlap and both return
\* success leave both added authors in the job's candidate table.
C31_NoLostAuthor ==
    \A j \in JobIds :
        \A w, v \in Added(j) :
            w # v /\ Overlapped(w, v) =>
                \E i \in 1..Len(PoolRows(j)) :
                    PoolRows(j)[i].author
                        = Strip(Content(inflight[w].read).author_name)

\* the names of job j's candidate table as the coauthorship check passes
\* them to the collaborator
PoolNames(j) == MapSeq(LAMBDA r : Strip(r.author), PoolRows(j))

RECURSIVE ShortCircuit(_, _, _, _)
\* the queries from position q on are those of the check of candidate i
\* from partner k on and of the candidates after i: each query pairs the
\* candidate with the next partner in pool order, the next candidate
\* follows a positive answer or the last partner, and nothing follows the
\* last candidate
ShortCircuit(names, q, i, k) ==
    IF q > Len(coQueries) THEN i = Len(names) + 1
    ELSE /\ i <= Len(names)
         /\ coQueries[q][1] = names[i]
         /\ coQueries[q][2] = names[k]
         /\ IF coQueries[q][3] \/ k = Len(names)
            THEN ShortCircuit(names, q + 1, i + 1, 1)
            ELSE ShortCircuit(names, q + 1, i, k + 1)

\* C32: the coauthorship check of a candidate queries the partners in pool
\* order and stops at the first positive answer: no later partner is
\* queried for the candidate, and without a positive answer every pool
\* entry is queried exactly once.
C32_StopsAtFirstPositive ==
    \A j \in JobIds :
        Scoring(j) => ShortCircuit(PoolNames(j), 1, 1, 1)

\* two candidates; the first partner of the first candidate was positive,
\* so its second partner was not queried: three queries, not four
C32_Witness ==
    /\ Scoring("j1")
    /\ Len(PoolRows("j1")) = 2
    /\ Len(coQueries) = 3
    /\ coQueries[1][3]

\* C33: name cleaning is idempotent: the cleaning steps of database_search
\* applied to a name database_search has cleaned and persisted return that
\* name unchanged.
C33_CleaningIsIdempotent ==
    \A j \in searched :
        \A i \in 1..Len(PoolRows(j)) :
            CleanName(PoolRows(j)[i].author) = PoolRows(j)[i].author

\* the endpoints that take a job id
JobScoped ==
    {"metadata_extraction", "keyword_enhancement", "keyword_string_generator",
     "database_search", "manual_authors", "validate_authors",
     "recommended_reviewers"}

\* C34: a job-scoped endpoint called with a job id that has no job folder
\* answers 404 and changes nothing: no job folder is made, no file of any
\* job is written, no collaborator is invoked.
C34_UnknownJobRefused ==
    [][resp'.op \in JobScoped /\ resp'.job \notin dirs =>
          /\ resp'.status = NotFound
          /\ UNCHANGED store
          /\ calls' = <<>> /\ coQueries' = <<>>
      ]_vars

\* validate_authors was refused for a job id without folder while another
\* job has its folder, metadata and candidate table
C34_Witness ==
    /\ resp.op = "validate_authors"
    /\ resp.status = NotFound
    /\ resp.job \notin dirs
    /\ \E j \in dirs : HasMetadata(j) /\ PoolRows(j) # <<>>
    /\ calls = <<>>

====
